---- MODULE Spec2Model ----
(***************************************************************************)
(* A model of timersock (src/src/bin/timersock.rs), the countdown-timer    *)
(* service, and of the parts of the timer CLI (src/src/main.rs) that       *)
(* decide what a command reports.                                          *)
(*                                                                         *)
(* Time is counted in ticks of 1/TicksPerSec second, so that the whole-    *)
(* second truncation of Duration::as_secs is visible.  u64 is modelled as  *)
(* 0..U64_MAX with the saturating arithmetic the code uses.                *)
(***************************************************************************)
EXTENDS Integers, Sequences, FiniteSets, TLC

\* ------------------------------------------------------------- bounds
\* Handler tasks (connections) served at a time under Spec, which takes
\* every kind of request.
NumReqs == 1
\* Handler tasks served concurrently under SpecConc, which takes
\* well-formed requests only.
NumConc == 2
\* Concurrent extend(1) requests under SpecExtend.
NumExtend == 3
\* Clock ticks per second (sub-second resolution of Instant).
TicksPerSec == 2
\* The clock stops advancing at MaxNow ticks under Spec, and at ConcMaxNow
\* ticks under SpecConc and SpecExtend.
MaxNow == 6
ConcMaxNow == 2
\* The largest value of the modelled u64.
U64_MAX == 4
\* Durations a client sends are 0..MaxSeconds, or U64_MAX.
MaxSeconds == 2

Max(a, b) == IF a >= b THEN a ELSE b

Slots == 1..Max(NumReqs, Max(NumConc, NumExtend))
Reqs == 1..NumReqs
ConcReqs == 1..NumConc
ExtReqs == 1..NumExtend
U64 == 0..U64_MAX
SecondsIn == (0..MaxSeconds) \cup {U64_MAX}

VARIABLES
    state,   \* the TimerState behind the RwLock
    now,     \* the monotonic clock, in ticks
    lock,    \* the slot holding the write guard, 0 when the lock is free
    pc,      \* each handler task's position in handle_request
    req,     \* each task's request line (method, path) while it is served
    secs,    \* each task's parsed SecondsBody.seconds
    resp     \* each task's response

vars == <<state, now, lock, pc, req, secs, resp>>

\* ------------------------------------------------------------- engine
saturating_sub(a, b) == IF b >= a THEN 0 ELSE a - b

saturating_add(a, b) == IF a + b > U64_MAX THEN U64_MAX ELSE a + b

\* Instant::duration_since(..).as_secs(): whole seconds, fraction dropped.
as_secs(ticks) == Max(ticks, 0) \div TicksPerSec

\* refresh without `if self.time_left_secs == 0 { self.running = false }`.
refresh_keeps_running(s, t) ==
    IF ~s.running
    THEN [s EXCEPT !.updated_at = t]
    ELSE LET elapsed == as_secs(t - s.updated_at) IN
         IF elapsed = 0
         THEN s
         ELSE [s EXCEPT !.time_left_secs = saturating_sub(s.time_left_secs, elapsed),
                        !.updated_at = t]

\* refresh without the early return of a timer that is not running.
refresh_decays_paused(s, t) ==
    LET elapsed == as_secs(t - s.updated_at) IN
    IF elapsed = 0
    THEN s
    ELSE [time_left_secs |-> saturating_sub(s.time_left_secs, elapsed),
          running |-> s.running /\ saturating_sub(s.time_left_secs, elapsed) > 0,
          updated_at |-> t]

\* refresh with wrapping_sub in place of saturating_sub.
refresh_wraps(s, t) ==
    IF ~s.running
    THEN [s EXCEPT !.updated_at = t]
    ELSE LET elapsed == as_secs(t - s.updated_at) IN
         IF elapsed = 0
         THEN s
         ELSE LET left == (s.time_left_secs - elapsed) % (U64_MAX + 1) IN
              [time_left_secs |-> left,
               running |-> IF left = 0 THEN FALSE ELSE s.running,
               updated_at |-> t]

\* refresh without `self.updated_at = now` after the subtraction.
refresh_no_stamp(s, t) ==
    IF ~s.running
    THEN [s EXCEPT !.updated_at = t]
    ELSE LET elapsed == as_secs(t - s.updated_at) IN
         IF elapsed = 0
         THEN s
         ELSE LET left == saturating_sub(s.time_left_secs, elapsed) IN
              [time_left_secs |-> left,
               running |-> IF left = 0 THEN FALSE ELSE s.running,
               updated_at |-> s.updated_at]

refresh(s, t) ==
    IF ~s.running
    THEN [s EXCEPT !.updated_at = t]
    ELSE LET elapsed == as_secs(t - s.updated_at) IN
         IF elapsed = 0
         THEN s
         ELSE LET left == saturating_sub(s.time_left_secs, elapsed) IN
              [time_left_secs |-> left,
               running |-> IF left = 0 THEN FALSE ELSE s.running,
               updated_at |-> t]

\* start without `self.updated_at = Instant::now()`.
start_stale(s, seconds, t) ==
    [time_left_secs |-> seconds, running |-> seconds > 0, updated_at |-> s.updated_at]

\* start that adds the duration to what is left.
start_adds(s, seconds, t) ==
    [time_left_secs |-> saturating_add(s.time_left_secs, seconds),
     running |-> seconds > 0,
     updated_at |-> t]

\* start that sets the timer running whatever the duration.
start_always_runs(s, seconds, t) ==
    [time_left_secs |-> seconds, running |-> TRUE, updated_at |-> t]

start(s, seconds, t) ==
    [time_left_secs |-> seconds, running |-> seconds > 0, updated_at |-> t]

pause(s, t) == [refresh(s, t) EXCEPT !.running = FALSE]

\* resume that sets running and neither reconciles nor stamps.
resume_keeps_stamp(s, t) ==
    IF s.time_left_secs > 0
    THEN [s EXCEPT !.running = TRUE]
    ELSE s

\* resume without `self.updated_at = Instant::now()`.
resume_no_stamp(s, t) ==
    LET r == refresh(s, t) IN
    IF r.time_left_secs > 0
    THEN [r EXCEPT !.running = TRUE]
    ELSE r

\* resume without `if self.time_left_secs > 0`.
resume_unconditional(s, t) ==
    [refresh(s, t) EXCEPT !.running = TRUE, !.updated_at = t]

resume(s, t) ==
    LET r == refresh(s, t) IN
    IF r.time_left_secs > 0
    THEN [r EXCEPT !.running = TRUE, !.updated_at = t]
    ELSE r

\* extend that stores the argument instead of adding it.
extend_overwrites(s, seconds, t) ==
    [refresh(s, t) EXCEPT !.time_left_secs = seconds]

\* extend that restarts the timer it has added time to.
extend_resumes(s, seconds, t) ==
    LET r == refresh(s, t) IN
    [r EXCEPT !.time_left_secs = saturating_add(r.time_left_secs, seconds),
              !.running = TRUE]

extend(s, seconds, t) ==
    LET r == refresh(s, t) IN
    [r EXCEPT !.time_left_secs = saturating_add(r.time_left_secs, seconds)]

\* ------------------------------------------------------------- format_hms
DigitChar(d) == <<"0", "1", "2", "3", "4", "5", "6", "7", "8", "9">>[d + 1]

RECURSIVE Decimal(_)
Decimal(n) == IF n < 10 THEN <<DigitChar(n)>>
              ELSE Decimal(n \div 10) \o <<DigitChar(n % 10)>>

\* {n:02}: decimal, zero-padded to at least two characters.
Pad2(n) == IF n < 10 THEN <<"0">> \o Decimal(n) ELSE Decimal(n)

\* format_hms with the minutes not reduced modulo the hour.
format_hms_whole_minutes(total_secs) ==
    LET hours == total_secs \div 3600
        minutes == total_secs \div 60
        seconds == total_secs % 60
    IN Pad2(hours) \o <<":">> \o Pad2(minutes) \o <<":">> \o Pad2(seconds)

format_hms(total_secs) ==
    LET hours == total_secs \div 3600
        minutes == (total_secs % 3600) \div 60
        seconds == total_secs % 60
    IN Pad2(hours) \o <<":">> \o Pad2(minutes) \o <<":">> \o Pad2(seconds)

\* TimerState::snapshot: the refreshed state and the TimerSnapshot of it.
snapshot(s, t) ==
    LET r == refresh(s, t) IN
    [state |-> r,
     snap |-> [time_left_secs |-> r.time_left_secs,
               time_left_hms |-> format_hms(r.time_left_secs),
               running |-> r.running]]

\* ------------------------------------------------------------- requests
Methods == {"GET", "POST"}

Paths == {"/time_left", "/start", "/pause", "/resume", "/extend", "/toggle", "/nope"}

\* A match on the path alone.
Route_ignores_method(method, path) ==
    CASE path = "/time_left" -> "query"
      [] path = "/start" -> "start"
      [] path = "/pause" -> "pause"
      [] path = "/resume" -> "resume"
      [] path = "/extend" -> "extend"
      [] OTHER -> "not_found"

\* The match of handle_request: the engine operation a (method, path) pair
\* reaches, or "not_found".
Route(method, path) ==
    CASE method = "GET" /\ path = "/time_left" -> "query"
      [] method = "POST" /\ path = "/start" -> "start"
      [] method = "POST" /\ path = "/pause" -> "pause"
      [] method = "POST" /\ path = "/resume" -> "resume"
      [] method = "POST" /\ path = "/extend" -> "extend"
      [] OTHER -> "not_found"

\* A JSON value where SecondsBody.seconds is looked for.
Absent == [type |-> "absent", num |-> 0]
JsonString == [type |-> "string", num |-> 0]
JsonNumber(n) == [type |-> "number", num |-> n]

JsonValues ==
    {Absent, JsonString}
    \cup {JsonNumber(n) : n \in SecondsIn \cup {-1, U64_MAX + 1}}

\* Request bodies.  kind is "io_error" (the body cannot be read to its end),
\* "empty" (no body), "not_json", "object" (a JSON object, seconds being its
\* "seconds" member) or "array" (a JSON array of at most one element,
\* seconds being that element).
Bodies ==
    {[kind |-> k, seconds |-> Absent] : k \in {"io_error", "empty", "not_json"}}
    \cup {[kind |-> k, seconds |-> v] : k \in {"object", "array"}, v \in JsonValues}

NoReq == [method |-> "", path |-> ""]

\* A u64 as serde_json reads it: a JSON integer in 0..u64::MAX.
IsU64(v) == v.type = "number" /\ v.num \in U64

\* serde_json::from_slice::<SecondsBody>.  The derived Deserialize of a
\* struct takes a JSON object with the member "seconds", and also a JSON
\* array holding the fields in order (serde's visit_seq), here [seconds].
from_slice(b) ==
    IF b.kind \in {"object", "array"} /\ IsU64(b.seconds)
    THEN [ok |-> TRUE, seconds |-> b.seconds.num]
    ELSE [ok |-> FALSE, seconds |-> 0]

\* ------------------------------------------------------------- responses
NoSnapshot == [time_left_secs |-> 0, time_left_hms |-> <<>>, running |-> FALSE]
NoResp == [status |-> 0, error |-> "", snapshot |-> NoSnapshot]

json_response(status, snap) == [status |-> status, error |-> "", snapshot |-> snap]

error_response(status, message) ==
    [status |-> status, error |-> message, snapshot |-> NoSnapshot]

\* parse_seconds_body: Ok(SecondsBody) or the 400 response.
parse_seconds_body(b) ==
    IF b.kind = "io_error"
    THEN [ok |-> FALSE, seconds |-> 0,
          err |-> error_response(400, "invalid body")]
    ELSE LET parsed == from_slice(b) IN
         IF parsed.ok
         THEN [ok |-> TRUE, seconds |-> parsed.seconds, err |-> NoResp]
         ELSE [ok |-> FALSE, seconds |-> 0,
               err |-> error_response(400, "expected JSON like {\"seconds\": 300}")]

\* ------------------------------------------------------------- the CLI
Commands == {"status", "start", "pause", "resume", "toggle", "extend"}

\* The request line main sends for a command.
command_request(cmd) ==
    CASE cmd = "status" -> [method |-> "GET", path |-> "/time_left"]
      [] cmd = "start" -> [method |-> "POST", path |-> "/start"]
      [] cmd = "pause" -> [method |-> "POST", path |-> "/pause"]
      [] cmd = "resume" -> [method |-> "POST", path |-> "/resume"]
      [] cmd = "toggle" -> [method |-> "POST", path |-> "/toggle"]
      [] cmd = "extend" -> [method |-> "POST", path |-> "/extend"]

\* send, from the response on: Ok(TimerSnapshot) for a 2xx status whose
\* body parses as a TimerSnapshot, an error (the command fails) otherwise.
send(response) ==
    IF ~(response.status \in 200..299)
    THEN [ok |-> FALSE, snapshot |-> NoSnapshot]
    ELSE IF response.error # ""
         THEN [ok |-> FALSE, snapshot |-> NoSnapshot]
         ELSE [ok |-> TRUE, snapshot |-> response.snapshot]

\* ------------------------------------------------------------- the service
Init ==
    /\ state = [time_left_secs |-> 0, running |-> FALSE, updated_at |-> 0]
    /\ now = 0
    /\ lock = 0
    /\ pc = [r \in Slots |-> "idle"]
    /\ req = [r \in Slots |-> NoReq]
    /\ secs = [r \in Slots |-> 0]
    /\ resp = [r \in Slots |-> NoResp]

\* The monotonic clock advances by one tick.
TickTo(bound) ==
    /\ now < bound
    /\ now' = now + 1
    /\ UNCHANGED <<state, lock, pc, req, secs, resp>>

Tick == TickTo(MaxNow)

\* handle_request is called with a request and runs to its first await:
\* the body read of /start and /extend, the lock of the other routes; an
\* unrouted request is answered at once.
AcceptRequest(r, method, path) ==
    /\ pc[r] = "idle"
    /\ LET route == Route(method, path) IN
       CASE route \in {"start", "extend"} ->
              /\ pc' = [pc EXCEPT ![r] = "parse"]
              /\ req' = [req EXCEPT ![r] = [method |-> method, path |-> path]]
              /\ resp' = resp
         [] route \in {"query", "pause", "resume"} ->
              /\ pc' = [pc EXCEPT ![r] = "wait"]
              /\ req' = [req EXCEPT ![r] = [method |-> method, path |-> path]]
              /\ resp' = resp
         [] OTHER ->
              /\ pc' = [pc EXCEPT ![r] = "done"]
              /\ req' = req
              /\ resp' = [resp EXCEPT ![r] = error_response(404, "route not found")]
    /\ UNCHANGED <<state, now, lock, secs>>

Accept(r) ==
    \E method \in Methods, path \in Paths : AcceptRequest(r, method, path)

\* parse_seconds_body(req).await returns, b being the body the connection
\* delivered.
ParseBodyOf(r, b) ==
    /\ pc[r] = "parse"
    /\ LET parsed == parse_seconds_body(b) IN
       IF parsed.ok
       THEN /\ pc' = [pc EXCEPT ![r] = "wait"]
            /\ secs' = [secs EXCEPT ![r] = parsed.seconds]
            /\ resp' = resp
            /\ req' = req
       ELSE /\ pc' = [pc EXCEPT ![r] = "done"]
            /\ resp' = [resp EXCEPT ![r] = parsed.err]
            /\ secs' = secs
            /\ req' = [req EXCEPT ![r] = NoReq]
    /\ UNCHANGED <<state, now, lock>>

ParseBody(r) == \E b \in Bodies : ParseBodyOf(r, b)

\* A lock that grants a guard while another is held (RwLock::read).
CanWrite_shared(r) == TRUE

\* RwLock::write: granted when no other guard is held.
CanWrite(r) == lock = 0

\* state.write().await returns the guard.
Acquire(r) ==
    /\ pc[r] = "wait"
    /\ CanWrite(r)
    /\ lock' = r
    /\ pc' = [pc EXCEPT ![r] =
                IF Route(req[r].method, req[r].path) = "query" THEN "snap" ELSE "op"]
    /\ UNCHANGED <<state, now, req, secs, resp>>

\* The engine operation of the route, applied through the guard.
Apply(route, s, seconds, t) ==
    CASE route = "start" -> start(s, seconds, t)
      [] route = "pause" -> pause(s, t)
      [] route = "resume" -> resume(s, t)
      [] route = "extend" -> extend(s, seconds, t)
      [] OTHER -> s

\* guard.start(..) / guard.pause() / guard.resume() / guard.extend(..)
Operate(r) ==
    /\ pc[r] = "op"
    /\ state' = Apply(Route(req[r].method, req[r].path), state, secs[r], now)
    /\ pc' = [pc EXCEPT ![r] = "snap"]
    /\ UNCHANGED <<now, lock, req, secs, resp>>

\* guard.snapshot(), json_response(200, ..), and the guard dropped at the
\* end of the match arm; the request is over.
\* Respond with the write guard kept alive past the response.
Respond_keeps_guard(r) ==
    /\ pc[r] = "snap"
    /\ LET out == snapshot(state, now) IN
       /\ state' = out.state
       /\ resp' = [resp EXCEPT ![r] = json_response(200, out.snap)]
    /\ lock' = lock
    /\ pc' = [pc EXCEPT ![r] = "done"]
    /\ secs' = [secs EXCEPT ![r] = 0]
    /\ req' = [req EXCEPT ![r] = NoReq]
    /\ now' = now

Respond(r) ==
    /\ pc[r] = "snap"
    /\ LET out == snapshot(state, now) IN
       /\ state' = out.state
       /\ resp' = [resp EXCEPT ![r] = json_response(200, out.snap)]
    /\ lock' = IF lock = r THEN 0 ELSE lock
    /\ pc' = [pc EXCEPT ![r] = "done"]
    /\ secs' = [secs EXCEPT ![r] = 0]
    /\ req' = [req EXCEPT ![r] = NoReq]
    /\ now' = now

\* The response is written out and the task is free for its next request.
Close(r) ==
    /\ pc[r] = "done"
    /\ pc' = [pc EXCEPT ![r] = "idle"]
    /\ resp' = [resp EXCEPT ![r] = NoResp]
    /\ UNCHANGED <<state, now, lock, req, secs>>

Next ==
    \/ Tick
    \/ \E r \in Reqs : Accept(r)
    \/ \E r \in Reqs : ParseBody(r)
    \/ \E r \in Reqs : Acquire(r)
    \/ \E r \in Reqs : Operate(r)
    \/ \E r \in Reqs : Respond(r)
    \/ \E r \in Reqs : Close(r)

Spec == Init /\ [][Next]_vars

\* ------------------------------------------------------------- concurrent clients
\* The routed requests, as (method, path) pairs.
Routed == {mp \in Methods \X Paths : Route(mp[1], mp[2]) # "not_found"}

\* {"seconds": n}
SecondsJson(n) == [kind |-> "object", seconds |-> JsonNumber(n)]

TickConc == TickTo(ConcMaxNow)

AcceptConc(r) == \E mp \in Routed : AcceptRequest(r, mp[1], mp[2])

ParseConc(r) == ParseBodyOf(r, SecondsJson(1))

\* NumConc tasks serving routed requests, start and extend carrying
\* {"seconds": 1}.
NextConc ==
    \/ TickConc
    \/ \E r \in ConcReqs : AcceptConc(r)
    \/ \E r \in ConcReqs : ParseConc(r)
    \/ \E r \in ConcReqs : Acquire(r)
    \/ \E r \in ConcReqs : Operate(r)
    \/ \E r \in ConcReqs : Respond(r)
    \/ \E r \in ConcReqs : Close(r)

SpecConc == Init /\ [][NextConc]_vars

\* NumExtend tasks, each serving one POST /extend {"seconds": 1}, against
\* the timer as constructed (time_left = 0, not running).
AcceptExtend(r) == AcceptRequest(r, "POST", "/extend")

NextExtend ==
    \/ TickConc
    \/ \E r \in ExtReqs : AcceptExtend(r)
    \/ \E r \in ExtReqs : ParseConc(r)
    \/ \E r \in ExtReqs : Acquire(r)
    \/ \E r \in ExtReqs : Operate(r)
    \/ \E r \in ExtReqs : Respond(r)

SpecExtend == Init /\ [][NextExtend]_vars

\* ------------------------------------------------------------- steps, as seen by the properties
RouteOf(r) == Route(req[r].method, req[r].path)

\* Task r's engine operation `route` is applied in this step.
OpStep(r, route) == pc[r] = "op" /\ pc'[r] = "snap" /\ RouteOf(r) = route

\* Task r takes its snapshot and answers in this step.
SnapStep(r) == pc[r] = "snap" /\ pc'[r] = "done"

\* The tasks holding a write guard.
Holders == {r \in Slots : pc[r] \in {"op", "snap"}}

\* Whole seconds from updated_at to clock value t.
ElapsedAt(t) == (t - state.updated_at) \div TicksPerSec

Min(a, b) == IF a <= b THEN a ELSE b

\* ------------------------------------------------------------- C1
\* C1: whenever the lock is free, and in every snapshot a caller has been
\* sent, time_left == 0 implies running == false.
C1_ZeroNotRunning ==
    /\ lock = 0 => (state.time_left_secs = 0 => ~state.running)
    /\ \A r \in Slots :
         resp[r].status = 200 =>
           (resp[r].snapshot.time_left_secs = 0 => ~resp[r].snapshot.running)

\* A caller has been told time_left_secs = 0, not running, by a request
\* that found the timer running: the state was last updated after the
\* clock started, so a start or resume was followed by decay to zero or by
\* start(0).
C1_Witness ==
    /\ lock = 0
    /\ state.time_left_secs = 0
    /\ ~state.running
    /\ state.updated_at >= TicksPerSec
    /\ \E r \in Slots :
         /\ pc[r] = "done"
         /\ resp[r].status = 200
         /\ resp[r].snapshot.time_left_secs = 0
         /\ ~resp[r].snapshot.running

\* ------------------------------------------------------------- C2
\* C2: at most one task holds the timer state at a time, the lock names
\* it, and every step that changes the timer state or sends a snapshot is
\* taken by the task holding the lock: between a task's acquiring the lock
\* and its answer no other task's operation is applied.
C2_Exclusive ==
    /\ [](/\ Cardinality(Holders) <= 1
          /\ \A r \in Holders : lock = r
          /\ (Holders = {} => lock = 0))
    /\ [][\A r \in Holders :
            (state' # state \/ lock' # lock) => pc'[r] # pc[r]]_vars
    /\ [][state' # state =>
            \E r \in Holders : lock = r /\ pc'[r] # pc[r]]_vars
    /\ [][\A r \in Slots : SnapStep(r) => lock = r /\ lock' = 0]_vars
    /\ [][\A r \in Slots : (lock = r /\ lock' # r) => SnapStep(r)]_vars

\* One task holds the lock between its operation and its snapshot, on a
\* running timer, while another waits for the lock.
C2_Witness ==
    \E r, q \in Slots :
        /\ pc[r] = "snap"
        /\ lock = r
        /\ state.running
        /\ pc[q] = "wait"

\* ------------------------------------------------------------- C3
\* C3: N concurrent extend(1) requests against time_left = 0, running =
\* false: each applied request has contributed exactly +1, so once all N
\* have completed time_left == N and running == false.
C3_NoLostUpdate ==
    /\ state.time_left_secs =
         Min(Cardinality({r \in ExtReqs : pc[r] \in {"snap", "done"}}), U64_MAX)
    /\ ~state.running
    /\ (\A r \in ExtReqs : pc[r] = "done") =>
         /\ state.time_left_secs = Min(NumExtend, U64_MAX)
         /\ \A r \in ExtReqs : resp[r].status = 200

\* All N requests have completed and time_left is N.
C3_Witness ==
    /\ \A r \in ExtReqs : pc[r] = "done" /\ resp[r].status = 200
    /\ state.time_left_secs = NumExtend
    /\ \E r \in ExtReqs : resp[r].snapshot.time_left_secs = 1
    /\ \E r \in ExtReqs : resp[r].snapshot.time_left_secs = NumExtend

\* ------------------------------------------------------------- C4
\* The time left once the elapsed whole seconds are taken off a running
\* timer (a timer that is not running keeps its time).
ReconciledLeft ==
    IF state.running
    THEN Max(0, state.time_left_secs - ElapsedAt(now))
    ELSE state.time_left_secs

\* C4 as claimed: extend(n) adds n (saturating) to the time left and
\* leaves running exactly as it was before the call, for all states.
C4_Original ==
    [][\A r \in Slots :
         OpStep(r, "extend") =>
           /\ state'.time_left_secs = Min(ReconciledLeft + secs[r], U64_MAX)
           /\ state'.running = state.running]_vars

\* C4 as amended: extend(n) adds n (saturating at the maximum, never
\* wrapping) to the reconciled time left, and leaves running as it was
\* before the call unless the timer was running and its time left had
\* fully elapsed: then the call leaves it stopped with time_left = n.
C4_ExtendFrame ==
    [][\A r \in Slots :
         OpStep(r, "extend") =>
           /\ state'.time_left_secs = Min(ReconciledLeft + secs[r], U64_MAX)
           /\ state'.time_left_secs \in U64
           /\ state'.running = (state.running /\ ReconciledLeft > 0)
           /\ (~state.running => state'.time_left_secs
                                   = Min(state.time_left_secs + secs[r], U64_MAX))]_vars

\* extend has been applied to a running timer and saturated at the
\* maximum, the timer still running.
C4_Witness ==
    \E r \in Slots :
        /\ pc[r] = "snap"
        /\ RouteOf(r) = "extend"
        /\ secs[r] > 0
        /\ state.running
        /\ state.time_left_secs = U64_MAX
        /\ state.updated_at >= TicksPerSec

\* ------------------------------------------------------------- C5
\* A body that carries a non-negative integer "seconds" member.
CarriesSeconds(b) ==
    b.kind = "object" /\ b.seconds.type = "number" /\ b.seconds.num >= 0

\* C5: a POST /start or POST /extend whose body is missing, is not valid
\* JSON or does not carry a non-negative integer "seconds" field is
\* answered 400 with an error body and never reaches the lock or the
\* engine: the timer state is what it was.
C5_MalformedRejected ==
    [][\A r \in Slots :
         (pc[r] = "parse" /\ pc'[r] # "parse") =>
           \A b \in Bodies :
             (~CarriesSeconds(b) /\ ParseBodyOf(r, b)) =>
               /\ pc'[r] = "done"
               /\ resp'[r].status = 400
               /\ resp'[r].error # ""
               /\ state' = state
               /\ lock' = lock]_vars

\* ------------------------------------------------------------- C6
ListedRoutes ==
    {<<"GET", "/time_left">>, <<"POST", "/start">>, <<"POST", "/pause">>,
     <<"POST", "/resume">>, <<"POST", "/extend">>}

\* C6: every request whose (method, path) is not a listed route is
\* answered 404 at once, the lock and the timer state untouched; the CLI's
\* toggle command sends such a request, and its answer makes the command
\* fail.
C6_UnroutedNotFound ==
    /\ <<command_request("toggle").method, command_request("toggle").path>>
         \notin ListedRoutes
    /\ [][\A r \in Slots :
            (pc[r] = "idle" /\ pc'[r] # "idle") =>
              \A m \in Methods, p \in Paths :
                (<<m, p>> \notin ListedRoutes /\ AcceptRequest(r, m, p)) =>
                  /\ pc'[r] = "done"
                  /\ resp'[r].status = 404
                  /\ resp'[r].error # ""
                  /\ ~send(resp'[r]).ok
                  /\ state' = state
                  /\ lock' = lock]_vars

\* A request has been answered 404 while the timer runs.
C6_Witness ==
    \E r \in Slots :
        /\ pc[r] = "done"
        /\ resp[r].status = 404
        /\ ~send(resp[r]).ok
        /\ state.running
        /\ now > state.updated_at

\* ------------------------------------------------------------- C7
\* C7: pause leaves the timer not running, and from then on, with any
\* time passing, no step other than a start, resume or extend decreases
\* time_left or sets running; every snapshot taken meanwhile reports the
\* time left unchanged and running = false.
C7_PauseFreezes ==
    /\ [][\A r \in Slots : OpStep(r, "pause") => ~state'.running]_vars
    /\ [][(/\ ~state.running
           /\ ~\E r \in Slots :
                 pc[r] = "op" /\ RouteOf(r) \in {"start", "resume", "extend"}) =>
            /\ state'.time_left_secs >= state.time_left_secs
            /\ ~state'.running
            /\ \A r \in Slots :
                 SnapStep(r) =>
                   /\ resp'[r].snapshot.time_left_secs >= state.time_left_secs
                   /\ ~resp'[r].snapshot.running]_vars

\* pause has returned with time left, and more than a second has passed
\* when the paused timer is queried.
C7_Witness ==
    \E r \in Slots :
        /\ pc[r] = "snap"
        /\ RouteOf(r) = "pause"
        /\ ~state.running
        /\ state.time_left_secs > 0
        /\ now - state.updated_at >= TicksPerSec

\* ------------------------------------------------------------- C8
\* C8: for n > 0, start(n) sets time_left = n, running, as of now; a
\* snapshot taken with no time elapsed since then reports time_left_secs =
\* n and running = true and changes nothing; a snapshot taken once at
\* least n seconds have elapsed reports time_left_secs = 0 and running =
\* false.  Stated both of the start request's own snapshot and of any later
\* request's.
C8_StartThenQuery ==
    [][\A r \in Slots :
         /\ (OpStep(r, "start") /\ secs[r] > 0) =>
              state' = [time_left_secs |-> secs[r], running |-> TRUE,
                        updated_at |-> now]
         /\ (SnapStep(r) /\ RouteOf(r) = "start" /\ secs[r] > 0
               /\ now = state.updated_at) =>
              /\ resp'[r].status = 200
              /\ resp'[r].snapshot.time_left_secs = secs[r]
              /\ resp'[r].snapshot.running
              /\ state' = state
         /\ (SnapStep(r) /\ RouteOf(r) = "start" /\ secs[r] > 0
               /\ now - state.updated_at >= secs[r] * TicksPerSec) =>
              /\ resp'[r].status = 200
              /\ resp'[r].snapshot.time_left_secs = 0
              /\ ~resp'[r].snapshot.running
         /\ (SnapStep(r) /\ state.running /\ now = state.updated_at) =>
              /\ resp'[r].snapshot.time_left_secs = state.time_left_secs
              /\ resp'[r].snapshot.running
              /\ state' = state
         /\ (SnapStep(r) /\ state.running
               /\ now - state.updated_at >= state.time_left_secs * TicksPerSec) =>
              /\ resp'[r].snapshot.time_left_secs = 0
              /\ ~resp'[r].snapshot.running
              /\ ~state'.running]_vars

\* start(n), n > 0, was applied at least n seconds ago and the timer is
\* queried now.
C8_Witness ==
    \E r \in Slots :
        /\ pc[r] = "snap"
        /\ RouteOf(r) = "start"
        /\ secs[r] > 0
        /\ state.running
        /\ state.time_left_secs = secs[r]
        /\ now - state.updated_at >= secs[r] * TicksPerSec

\* ------------------------------------------------------------- C9
\* Clock values up to which reconciliation is tried: past the end of the
\* model's clock, so that every time_left is outrun.
Horizon == MaxNow + (U64_MAX + 2) * TicksPerSec

C10_QueryIdempotent ==
    LET first == snapshot(state, now)
        second == snapshot(first.state, now)
    IN /\ second.snap = first.snap
       /\ second.state = first.state

\* A running timer with whole seconds elapsed and time to spare is
\* queried: the first query subtracts, the second must not.
C10_Witness ==
    \E r \in Slots :
        /\ pc[r] = "snap"
        /\ RouteOf(r) = "query"
        /\ state.running
        /\ ElapsedAt(now) >= 1
        /\ state.time_left_secs > ElapsedAt(now)

\* ------------------------------------------------------------- C11
\* C11: after resume() from any state, time_left is the reconciled time
\* left and running is true exactly when that is greater than 0; a timer
\* with nothing left, a running timer whose time has fully elapsed
\* included, is left not running.
C11_ResumeRuns ==
    [][\A r \in Slots :
         OpStep(r, "resume") =>
           /\ state'.time_left_secs = ReconciledLeft
           /\ state'.running = (ReconciledLeft > 0)
           /\ (ReconciledLeft = 0 =>
                 ~state'.running /\ state'.time_left_secs = 0)]_vars

\* resume has been applied, after the clock ran, to a timer with nothing
\* left, and has left it not running.
C11_Witness ==
    \E r \in Slots :
        /\ pc[r] = "snap"
        /\ RouteOf(r) = "resume"
        /\ state.time_left_secs = 0
        /\ ~state.running
        /\ state.updated_at = now
        /\ now >= TicksPerSec

\* ------------------------------------------------------------- C12
\* C12: start(seconds) overwrites the state from any prior state:
\* time_left == seconds, running == (seconds > 0), last_update == now,
\* nothing of the time elapsed before it subtracted; the request is
\* answered 200, and the answer to start(0) is time_left_secs = 0, running
\* = false whenever its snapshot is taken.
C12_StartOverwrites ==
    [][\A r \in Slots :
         /\ OpStep(r, "start") =>
              state' = [time_left_secs |-> secs[r], running |-> secs[r] > 0,
                        updated_at |-> now]
         /\ (SnapStep(r) /\ RouteOf(r) = "start") =>
              /\ resp'[r].status = 200
              /\ resp'[r].snapshot.time_left_secs <= secs[r]
              /\ secs[r] = 0 =>
                   /\ resp'[r].snapshot.time_left_secs = 0
                   /\ ~resp'[r].snapshot.running]_vars

\* start(0) has been applied, after the clock ran, and its snapshot is
\* about to be taken.
C12_Witness ==
    \E r \in Slots :
        /\ pc[r] = "snap"
        /\ RouteOf(r) = "start"
        /\ secs[r] = 0
        /\ state.time_left_secs = 0
        /\ ~state.running
        /\ state.updated_at >= TicksPerSec

\* ------------------------------------------------------------- C13
\* Rendering of durations of real size.  The timer holds a duration that
\* start(n) stored (running) or that start(n) and pause left (paused); it
\* is queried while the clock runs.  No start or extend is served, so the
\* engine's arithmetic bound U64_MAX plays no part here.
MaxHours == 100

FormatHours == {0, 1, 23, 25, MaxHours - 1, MaxHours}

FormatSecs ==
    {h * 3600 + m * 60 + s : h \in FormatHours, m \in {0, 1, 59}, s \in {0, 1, 59}}

InitFormat ==
    /\ state \in {[time_left_secs |-> n, running |-> b, updated_at |-> 0] :
                    n \in FormatSecs, b \in BOOLEAN}
    /\ state.running => state.time_left_secs > 0
    /\ now = 0
    /\ lock = 0
    /\ pc = [r \in Slots |-> "idle"]
    /\ req = [r \in Slots |-> NoReq]
    /\ secs = [r \in Slots |-> 0]
    /\ resp = [r \in Slots |-> NoResp]

AcceptQuery(r) == AcceptRequest(r, "GET", "/time_left")

NextFormat ==
    \/ TickConc
    \/ \E r \in Reqs : AcceptQuery(r)
    \/ \E r \in Reqs : Acquire(r)
    \/ \E r \in Reqs : Respond(r)
    \/ \E r \in Reqs : Close(r)

SpecFormat == InitFormat /\ [][NextFormat]_vars

\* The number a decimal digit stands for (10 for any other character).
DigitValue(c) ==
    CASE c = "0" -> 0 [] c = "1" -> 1 [] c = "2" -> 2 [] c = "3" -> 3
      [] c = "4" -> 4 [] c = "5" -> 5 [] c = "6" -> 6 [] c = "7" -> 7
      [] c = "8" -> 8 [] c = "9" -> 9 [] OTHER -> 10

IsDigits(f) == \A i \in 1..Len(f) : DigitValue(f[i]) < 10

RECURSIVE FieldValue(_)
FieldValue(f) ==
    IF f = <<>> THEN 0
    ELSE 10 * FieldValue(SubSeq(f, 1, Len(f) - 1)) + DigitValue(f[Len(f)])

\* hms is H..H:MM:SS for total: the hours are total div 3600 in at least
\* two digits and no more than the number needs, the minutes and seconds
\* are two digits each and at most 59, and the three recompose total.
RendersHms(hms, total) ==
    LET n == Len(hms)
        hours == SubSeq(hms, 1, n - 6)
        minutes == SubSeq(hms, n - 4, n - 3)
        seconds == SubSeq(hms, n - 1, n)
    IN /\ n >= 8
       /\ hms[n - 5] = ":" /\ hms[n - 2] = ":"
       /\ IsDigits(hours) /\ IsDigits(minutes) /\ IsDigits(seconds)
       /\ FieldValue(hours) = total \div 3600
       /\ FieldValue(minutes) = (total % 3600) \div 60
       /\ FieldValue(seconds) = total % 60
       /\ FieldValue(minutes) \in 0..59 /\ FieldValue(seconds) \in 0..59
       /\ Len(hours) > 2 => hours[1] # "0"
       /\ FieldValue(hours) * 3600 + FieldValue(minutes) * 60
            + FieldValue(seconds) = total

\* C13: format_hms renders hours (total div 3600, at least two digits,
\* width unbounded), minutes ((total mod 3600) div 60) and seconds (total
\* mod 60) zero-padded, minutes and seconds in 0..59, recomposing the
\* total; and the formatted field of every snapshot is format_hms of that
\* snapshot's time_left_secs.
C13_FormatHms ==
    /\ \A total \in FormatSecs : RendersHms(format_hms(total), total)
    /\ format_hms(0) = <<"0", "0", ":", "0", "0", ":", "0", "0">>
    /\ format_hms(3661) = <<"0", "1", ":", "0", "1", ":", "0", "1">>
    /\ format_hms(86399) = <<"2", "3", ":", "5", "9", ":", "5", "9">>
    /\ format_hms(90000) = <<"2", "5", ":", "0", "0", ":", "0", "0">>
    /\ \A r \in Slots :
         resp[r].status = 200 =>
           /\ RendersHms(resp[r].snapshot.time_left_hms,
                         resp[r].snapshot.time_left_secs)
           /\ resp[r].snapshot.time_left_hms
                = format_hms(resp[r].snapshot.time_left_secs)

\* A snapshot of a timer that ran for a second from a whole number of
\* hours: 59 minutes 59 seconds, past the first hour.
C13_Witness ==
    \E r \in Slots :
        /\ resp[r].status = 200
        /\ resp[r].snapshot.running
        /\ resp[r].snapshot.time_left_secs >= 3600
        /\ resp[r].snapshot.time_left_secs % 3600 = 3599

\* ------------------------------------------------------------- C14
\* A timer left to run.  The task Starter has served start(n) at instant 0
\* and holds its answer; from then on only queries and resumes arrive.
Starter == NumReqs + 1

InitStarted ==
    \E n \in SecondsIn \ {0} :
        LET fresh == [time_left_secs |-> 0, running |-> FALSE, updated_at |-> 0]
            out == snapshot(start(fresh, n, 0), 0)
        IN /\ state = out.state
           /\ resp = [r \in Slots |-> IF r = Starter
                                      THEN json_response(200, out.snap)
                                      ELSE NoResp]
           /\ pc = [r \in Slots |-> IF r = Starter THEN "done" ELSE "idle"]
           /\ now = 0
           /\ lock = 0
           /\ req = [r \in Slots |-> NoReq]
           /\ secs = [r \in Slots |-> 0]

AcceptRun(r) ==
    \/ AcceptQuery(r)
    \/ AcceptRequest(r, "POST", "/resume")

NextDecay ==
    \/ Tick
    \/ \E r \in Reqs : AcceptRun(r)
    \/ \E r \in Reqs : Acquire(r)
    \/ \E r \in Reqs : Operate(r)
    \/ \E r \in Reqs : Respond(r)
    \/ \E r \in Reqs : Close(r)

SpecDecay == InitStarted /\ [][NextDecay]_vars

\* The duration the timer was started with, as start's answer reports it.
StartedWith == resp[Starter].snapshot.time_left_secs

\* C14: for a timer that stays running after start(n), every query at
\* real elapsed time T since the start reports time_left = max(0, n -
\* floor(T)), whatever queries and resumes were served in between.
C14_ExactDecay ==
    [][\A r \in Reqs :
         (SnapStep(r) /\ RouteOf(r) = "query") =>
           resp'[r].snapshot.time_left_secs
             = Max(0, StartedWith - now \div TicksPerSec)]_vars

\* ------------------------------------------------------------- C15
\* The same timer left to run for ever.  An Instant is opaque, only
\* differences of instants are observed, so once the clock has reached
\* LiveMaxNow a tick moves the origin instead: the stamp moves back by one
\* tick.  A stamp older than LiveMaxNow ticks is older than any time_left
\* in whole seconds plus one, and reconciles like one of exactly that age.
LiveMaxNow == (U64_MAX + 1) * TicksPerSec

TickLive ==
    /\ IF now < LiveMaxNow
       THEN now' = now + 1 /\ state' = state
       ELSE /\ now' = now
            /\ state' = [state EXCEPT !.updated_at = Max(0, @ - 1)]
    /\ UNCHANGED <<lock, pc, req, secs, resp>>

NextLive ==
    \/ TickLive
    \/ \E r \in Reqs : AcceptRun(r)
    \/ \E r \in Reqs : Acquire(r)
    \/ \E r \in Reqs : Operate(r)
    \/ \E r \in Reqs : Respond(r)
    \/ \E r \in Reqs : Close(r)

\* Time keeps advancing, requests keep arriving, and every request that
\* can take its next step takes it.
FairLive ==
    /\ WF_vars(TickLive)
    /\ \A r \in Reqs :
         /\ WF_vars(AcceptRun(r))
         /\ SF_vars(Acquire(r))
         /\ WF_vars(Operate(r))
         /\ WF_vars(Respond(r))
         /\ WF_vars(Close(r))

SpecLive == InitStarted /\ [][NextLive]_vars /\ FairLive

\* C15: a running timer with no start, extend or pause issued: as time
\* keeps advancing and queries or resumes keep arriving, some response
\* eventually reports time_left = 0 and running = false.
C15_EventuallyStopped ==
    <>(\E r \in Reqs :
         /\ resp[r].status = 200
         /\ resp[r].snapshot.time_left_secs = 0
         /\ ~resp[r].snapshot.running)

\* ------------------------------------------------------------- C16
\* NumStart tasks, each serving one POST /start {"seconds": n}, all within
\* one instant of the clock.
NumStart == 2

StartReqs == 1..NumStart

AcceptStart(r) == AcceptRequest(r, "POST", "/start")

ParseStart(r) == \E n \in SecondsIn : ParseBodyOf(r, SecondsJson(n))

NextStart ==
    \/ \E r \in StartReqs : AcceptStart(r)
    \/ \E r \in StartReqs : ParseStart(r)
    \/ \E r \in StartReqs : Acquire(r)
    \/ \E r \in StartReqs : Operate(r)
    \/ \E r \in StartReqs : Respond(r)

SpecStart == Init /\ [][NextStart]_vars

AllStarted == \A r \in StartReqs : pc[r] = "done"

\* C16: concurrent start(a) and start(b) are serialised by the lock.  A
\* start overwrites whatever the earlier one left; the task that completes
\* when every other has completed is the one that took the lock last, and
\* the state it leaves is its own duration: one of the requested
\* durations, never a mixture or a sum, with running == (time_left > 0).
C16_LastStartWins ==
    /\ [](AllStarted =>
            /\ \E r \in StartReqs :
                 state.time_left_secs = resp[r].snapshot.time_left_secs
            /\ state.running = (state.time_left_secs > 0))
    /\ [][\A r \in StartReqs :
            /\ OpStep(r, "start") =>
                 /\ lock = r
                 /\ state'.time_left_secs = secs[r]
                 /\ state'.running = (secs[r] > 0)
            /\ SnapStep(r) =>
                 /\ state' = state
                 /\ resp'[r].snapshot.time_left_secs = secs[r]
                 /\ (\A q \in StartReqs \ {r} : pc[q] = "done") =>
                      /\ state'.time_left_secs = secs[r]
                      /\ state'.running = (secs[r] > 0)]_vars

\* Both starts have completed with different durations; the timer holds
\* the smaller one, so it is not a sum and not the maximum.
C16_Witness ==
    /\ AllStarted
    /\ \E r, q \in StartReqs :
         /\ resp[r].snapshot.time_left_secs > 0
         /\ resp[r].snapshot.time_left_secs < resp[q].snapshot.time_left_secs
         /\ state.time_left_secs = resp[r].snapshot.time_left_secs
         /\ state.running

\* ------------------------------------------------------------- C17
\* A handler is a future: when the connection goes away it is dropped, and
\* that can happen only where it is suspended, at one of its awaits:
\* collecting the body and state.write().
Droppable_in_section(r) == pc[r] \in {"parse", "wait", "op", "snap"}

Droppable(r) == pc[r] \in {"parse", "wait"}

\* The handler is dropped: the task ends without a response.  A write
\* guard it held would be dropped with it.
Drop(r) ==
    /\ Droppable(r)
    /\ pc' = [pc EXCEPT ![r] = "done"]
    /\ req' = [req EXCEPT ![r] = NoReq]
    /\ secs' = [secs EXCEPT ![r] = 0]
    /\ lock' = IF lock = r THEN 0 ELSE lock
    /\ UNCHANGED <<state, now, resp>>

NextDrop ==
    \/ NextConc
    \/ \E r \in ConcReqs : Drop(r)

SpecDrop == Init /\ [][NextDrop]_vars

\* The task of r ends without having produced a response.
DropStep(r) == pc[r] # "done" /\ pc'[r] = "done" /\ resp'[r].status = 0

\* C17: an abandoned request (handler dropped while reading the body or
\* waiting for the lock) leaves the timer untouched and the lock as it was,
\* and the lock is only ever held by a handler inside its section; from
\* the lock on, a handler can only go on to its operation, its snapshot and
\* its response, so no operation is left half applied, and ending a task
\* whose operation was applied does not undo it.
C17_AbandonHarmless ==
    /\ [](\A r \in Slots : lock = r => pc[r] \in {"op", "snap"})
    /\ [][\A r \in Slots :
            /\ DropStep(r) =>
                 /\ pc[r] \in {"parse", "wait"}
                 /\ lock # r
                 /\ state' = state
                 /\ lock' = lock
            /\ pc[r] = "op" => pc'[r] \in {"op", "snap"}
            /\ pc[r] = "snap" =>
                 \/ pc'[r] = "snap"
                 \/ pc'[r] = "done" /\ resp'[r].status = 200
            /\ (pc[r] = "done" /\ pc'[r] = "idle") =>
                 state' = state /\ lock' = lock]_vars

\* A request was abandoned while another handler holds the lock over a
\* running timer.
C17_Witness ==
    \E r, q \in Slots :
        /\ pc[r] = "done"
        /\ resp[r].status = 0
        /\ lock = q
        /\ pc[q] = "snap"
        /\ state.running

\* ------------------------------------------------------------- C18
\* The concurrent service under fair scheduling.  tokio polls every
\* spawned task that can make progress (weak fairness on the steps of a
\* handler), and its RwLock serves waiters in FIFO order, so a handler
\* waiting at state.write() while the lock is released again and again is
\* served (strong fairness on Acquire).  Nothing obliges a client to send
\* a request or to read its response.
NumFair == 2

FairReqs == 1..NumFair

\* Progress through the lock depends neither on the clock nor on the
\* duration held: the requests are served within one instant, and every
\* routed request but extend arrives (start goes through the body and the
\* lock, the others through the lock only).
AcceptFair(r) ==
    \E mp \in Routed :
        /\ Route(mp[1], mp[2]) # "extend"
        /\ AcceptRequest(r, mp[1], mp[2])

NextFair ==
    \/ \E r \in FairReqs : AcceptFair(r)
    \/ \E r \in FairReqs : ParseConc(r)
    \/ \E r \in FairReqs : Acquire(r)
    \/ \E r \in FairReqs : Operate(r)
    \/ \E r \in FairReqs : Respond(r)
    \/ \E r \in FairReqs : Close(r)

FairConc ==
    \A r \in FairReqs :
        /\ WF_vars(ParseConc(r))
        /\ SF_vars(Acquire(r))
        /\ WF_vars(Operate(r))
        /\ WF_vars(Respond(r))

SpecFair == Init /\ [][NextFair]_vars /\ FairConc

InFlight(r) == pc[r] \in {"parse", "wait", "op", "snap"}

\* C18: every accepted request eventually receives a response; the lock is
\* held only by a handler inside its section, which can always go on (no
\* deadlock); a handler takes the lock once, when it leaves the wait, and
\* gives it up with its response.
C18_Responds ==
    /\ \A r \in FairReqs :
         InFlight(r) ~> (pc[r] = "done" /\ resp[r].status # 0)
    /\ [](\A r \in FairReqs : lock = r => pc[r] \in {"op", "snap"})
    /\ [][\A r \in FairReqs :
            /\ (lock # r /\ lock' = r) =>
                 pc[r] = "wait" /\ pc'[r] \in {"op", "snap"}
            /\ (lock = r /\ lock' # r) =>
                 lock' = 0 /\ pc'[r] = "done" /\ resp'[r].status = 200]_vars

\* Every task but the lock holder is waiting for the lock.
C18_Witness ==
    \E r \in FairReqs :
        /\ lock = r
        /\ pc[r] = "op"
        /\ \A q \in FairReqs \ {r} : pc[q] = "wait"

\* ------------------------------------------------------------- C19
\* A step that reconciles and does nothing to the stamp afterwards: pause,
\* extend, and the snapshot of any request.
ReconcileStep(r) ==
    \/ OpStep(r, "pause")
    \/ OpStep(r, "extend")
    \/ SnapStep(r)

\* C19: last_update never decreases and never exceeds the clock; a
\* reconciliation of a running timer with less than one whole second
\* elapsed leaves it unchanged, every other reconciliation sets it to the
\* current instant, and so do start and resume with time_left > 0.
C19_StampMonotone ==
    /\ [](state.updated_at <= now)
    /\ [][/\ state'.updated_at >= state.updated_at
          /\ state'.updated_at <= now'
          /\ \A r \in Slots :
               /\ OpStep(r, "start") => state'.updated_at = now
               /\ (OpStep(r, "resume") /\ state'.time_left_secs > 0) =>
                    state'.updated_at = now
               /\ OpStep(r, "resume") => state'.updated_at = now
               /\ ReconcileStep(r) =>
                    state'.updated_at
                      = IF state.running /\ ElapsedAt(now) = 0
                        THEN state.updated_at
                        ELSE now]_vars

\* extend has reconciled a running timer stamped a fraction of a second
\* ago and has left the stamp behind the clock.
C19_Witness ==
    \E r \in Slots :
        /\ pc[r] = "snap"
        /\ RouteOf(r) = "extend"
        /\ state.running
        /\ 0 < state.updated_at
        /\ state.updated_at < now
        /\ now - state.updated_at < TicksPerSec

\* ------------------------------------------------------------- C20
\* A paused timer being resumed.  The task Starter has served the pause
\* and holds its answer (r > 0, not running); the timer has been paused
\* for some time since (queries and pauses in that time only move the
\* stamp); the task Resumer holds the lock and applies resume().  The
\* clock's origin is the instant of the resume, so the timer was last
\* stamped at or before 0, and the clock reads the time since the resume.
Resumer == NumReqs + 2

InitPaused ==
    \E n \in SecondsIn \ {0}, paused \in 0..MaxNow :
        LET out == snapshot([time_left_secs |-> n, running |-> FALSE,
                             updated_at |-> 0 - paused], 0 - paused)
        IN /\ state = out.state
           /\ resp = [r \in Slots |-> IF r = Starter
                                      THEN json_response(200, out.snap)
                                      ELSE NoResp]
           /\ pc = [r \in Slots |-> IF r = Starter THEN "done"
                                    ELSE IF r = Resumer THEN "op" ELSE "idle"]
           /\ req = [r \in Slots |-> IF r = Resumer
                                     THEN [method |-> "POST", path |-> "/resume"]
                                     ELSE NoReq]
           /\ lock = Resumer
           /\ now = 0
           /\ secs = [r \in Slots |-> 0]

TickResumed == pc[Resumer] # "op" /\ Tick

NextResume ==
    \/ TickResumed
    \/ Operate(Resumer)
    \/ Respond(Resumer)
    \/ \E r \in Reqs : AcceptRun(r)
    \/ \E r \in Reqs : Acquire(r)
    \/ \E r \in Reqs : Operate(r)
    \/ \E r \in Reqs : Respond(r)
    \/ \E r \in Reqs : Close(r)

SpecResume == InitPaused /\ [][NextResume]_vars

\* What the pause left, as its answer reports it.
PausedWith == resp[Starter].snapshot.time_left_secs

\* C20: time that passes while paused is never charged.  resume() on a
\* timer paused with r > 0 leaves (r, running, stamped now) however long
\* the pause lasted; a snapshot with no elapsed time after the resume
\* reports time_left = r and running = true; a snapshot d seconds after
\* the resume reports time_left >= max(0, r - floor(d)).
C20_PauseNotCharged ==
    [][/\ OpStep(Resumer, "resume") =>
            state' = [time_left_secs |-> PausedWith, running |-> TRUE,
                      updated_at |-> now]
       /\ \A q \in Slots :
            SnapStep(q) =>
              /\ resp'[q].snapshot.time_left_secs
                   >= Max(0, PausedWith - now \div TicksPerSec)
              /\ now = 0 =>
                   /\ resp'[q].snapshot.time_left_secs = PausedWith
                   /\ resp'[q].snapshot.running]_vars

\* A query answered a second or more after the resume reports a running
\* timer that has decayed from what the pause left.
C20_Witness ==
    \E q \in Reqs :
        /\ pc[Resumer] = "done"
        /\ pc[q] = "done"
        /\ resp[q].status = 200
        /\ resp[q].snapshot.running
        /\ resp[q].snapshot.time_left_secs < PausedWith
        /\ now >= TicksPerSec

====
